---- MODULE Spec2Model ----
(***************************************************************************)
(* The abstract syntax tree of lang-c (src/src/ast.rs) as a state machine. *)
(*                                                                         *)
(* ast.rs declares data only: structs and enums with public fields, each   *)
(* deriving Debug, PartialEq and Clone.  The operations the module offers  *)
(* are therefore construction by literal, the derived comparison, the      *)
(* derived clone, reading a field and dropping an owned value.  Values are *)
(* TLA+ records carrying a `tag` that names the type (and variant).        *)
(*                                                                         *)
(* Node<T> (span.rs) and the parser are not part of ast.rs; where a        *)
(* property needs them they are modelled from the specification and said   *)
(* so at the definition.                                                   *)
(***************************************************************************)
EXTENDS Naturals, Sequences, FiniteSets, Bags, TLC

\* ------------------------------------------------------------------------
\* Bounds of the model
\* ------------------------------------------------------------------------

\* Derived-declarator elements in one declarator, all nesting levels together.
MaxDerived == 2
\* Levels of parenthesised nesting (DeclaratorKind::Declarator) in a declarator.
MaxNesting == 1

\* Largest offset at which a declarator text may start when it is read.
MaxOffset == 1

\* Allocations (boxed or vector-held nodes) that may be live at once.
MaxCells == 3
\* Elements of one Vec of expressions or block items.
MaxWidth == 2
\* Consumers reading a shared tree.
MaxConsumers == 2

\* Tokens in an expression text.
MaxTokens == 7
\* Labels in front of one statement.
MaxLabels == 2

\* Identifier names used by the model.
Names == {"a", "f"}

\* ------------------------------------------------------------------------
\* Containers and the position wrapper
\* ------------------------------------------------------------------------

\* Node<T>: a value paired with its source span (start, end).
Node(v, s) == [node |-> v, span |-> s]

\* The span given to a node that is built by hand, outside any parse.
NoSpan == <<0, 0>>

\* Box<T> owns exactly one T; as a value it is its content.
Box(v) == v

None == [tag |-> "None"]
Some(v) == [tag |-> "Some", value |-> v]

IsNode(x) == "span" \in DOMAIN x

\* ------------------------------------------------------------------------
\* Lexical leaves and the expressions the declarators need
\* ------------------------------------------------------------------------

Identifier(name) == [tag |-> "Identifier", name |-> name]

Integer_Decimal(text) == [tag |-> "Integer::Decimal", text |-> text]

Constant_Integer(i) == [tag |-> "Constant::Integer", integer |-> i]

Expression_Identifier(n) == [tag |-> "Expression::Identifier", identifier |-> n]

Expression_Constant(n) == [tag |-> "Expression::Constant", constant |-> n]

\* ------------------------------------------------------------------------
\* Declaration specifiers
\* ------------------------------------------------------------------------

TypeSpecifier_Void == [tag |-> "TypeSpecifier::Void"]

TypeSpecifier_Int == [tag |-> "TypeSpecifier::Int"]

DeclarationSpecifier_TypeSpecifier(n) ==
    [tag |-> "DeclarationSpecifier::TypeSpecifier", specifier |-> n]

SpecifierQualifier_TypeSpecifier(n) ==
    [tag |-> "SpecifierQualifier::TypeSpecifier", specifier |-> n]

\* ------------------------------------------------------------------------
\* Declarators
\* ------------------------------------------------------------------------

ArraySize_Unknown == [tag |-> "ArraySize::Unknown"]

ArraySize_VariableUnknown == [tag |-> "ArraySize::VariableUnknown"]

ArraySize_VariableExpression(e) ==
    [tag |-> "ArraySize::VariableExpression", expression |-> e]

ArraySize_StaticExpression(e) ==
    [tag |-> "ArraySize::StaticExpression", expression |-> e]

Ellipsis_Some == [tag |-> "Ellipsis::Some"]

Ellipsis_None == [tag |-> "Ellipsis::None"]

DerivedDeclarator_Pointer(qualifiers) ==
    [tag |-> "DerivedDeclarator::Pointer", qualifiers |-> qualifiers]

DerivedDeclarator_Array(qualifiers, size) ==
    [tag |-> "DerivedDeclarator::Array", qualifiers |-> qualifiers, size |-> size]

DerivedDeclarator_Function(parameters, ellipsis) ==
    [tag |-> "DerivedDeclarator::Function", parameters |-> parameters,
     ellipsis |-> ellipsis]

BareKRFunction(identifiers) ==
    [tag |-> "DerivedDeclarator::KRFunction",
     identifiers |-> [i \in 1..Len(identifiers) |-> identifiers[i].node]]

DerivedDeclarator_KRFunction(identifiers) ==
    [tag |-> "DerivedDeclarator::KRFunction", identifiers |-> identifiers]

DeclaratorKind_Abstract == [tag |-> "DeclaratorKind::Abstract"]

DeclaratorKind_Identifier(n) ==
    [tag |-> "DeclaratorKind::Identifier", identifier |-> n]

UnwrappedDeclaratorKind(b) == b.node.kind.node

DeclaratorKind_Declarator(b) ==
    [tag |-> "DeclaratorKind::Declarator", declarator |-> b]

MisorderedDeclarator(kind, derived, extensions) ==
    [tag |-> "Declarator", kind |-> kind,
     derived |-> [i \in 1..Len(derived) |-> derived[Len(derived) + 1 - i]],
     extensions |-> extensions]

Declarator(kind, derived, extensions) ==
    [tag |-> "Declarator", kind |-> kind, derived |-> derived,
     extensions |-> extensions]

ParameterDeclaration(specifiers, declarator, extensions) ==
    [tag |-> "ParameterDeclaration", specifiers |-> specifiers,
     declarator |-> declarator, extensions |-> extensions]

TypeName(specifiers, declarator) ==
    [tag |-> "TypeName", specifiers |-> specifiers, declarator |-> declarator]

\* ------------------------------------------------------------------------
\* Declarations, statements and function definitions
\* ------------------------------------------------------------------------

InitDeclarator(declarator, initializer) ==
    [tag |-> "InitDeclarator", declarator |-> declarator,
     initializer |-> initializer]

Declaration_Declaration(specifiers, declarators) ==
    [tag |-> "Declaration::Declaration", specifiers |-> specifiers,
     declarators |-> declarators]

Statement_Compound(items) == [tag |-> "Statement::Compound", items |-> items]

MergingFunctionDefinition(specifiers, declarator, declarations, statement) ==
    [tag |-> "FunctionDefinition", specifiers |-> specifiers,
     declarator |->
         Node([declarator.node EXCEPT !.derived = declarator.node.derived \o declarations],
              declarator.span),
     declarations |-> << >>,
     statement |-> statement]

FunctionDefinition(specifiers, declarator, declarations, statement) ==
    [tag |-> "FunctionDefinition", specifiers |-> specifiers,
     declarator |-> declarator, declarations |-> declarations,
     statement |-> statement]

\* ------------------------------------------------------------------------
\* The derived PartialEq: same variant, and every field equal, recursively
\* ------------------------------------------------------------------------

Vec_eq(Eq(_, _), s, t) ==
    Len(s) = Len(t) /\ \A i \in 1..Len(s) : Eq(s[i], t[i])

Option_eq(Eq(_, _), a, b) ==
    a.tag = b.tag /\ (a.tag = "Some" => Eq(a.value, b.value))

\* Entity equality of two nodes: the wrapped values are compared, the span
\* is metadata and is not.
Node_eq(Eq(_, _), a, b) == Eq(a.node, b.node)

Identifier_eq(a, b) == a.name = b.name

Integer_eq(a, b) == a.tag = b.tag /\ a.text = b.text

Constant_eq(a, b) == a.tag = b.tag /\ Integer_eq(a.integer, b.integer)

Expression_eq(a, b) ==
    /\ a.tag = b.tag
    /\ a.tag = "Expression::Identifier" =>
           Node_eq(Identifier_eq, a.identifier, b.identifier)
    /\ a.tag = "Expression::Constant" =>
           Node_eq(Constant_eq, a.constant, b.constant)

TypeSpecifier_eq(a, b) == a.tag = b.tag

DeclarationSpecifier_eq(a, b) ==
    a.tag = b.tag /\ Node_eq(TypeSpecifier_eq, a.specifier, b.specifier)

SpecifierQualifier_eq(a, b) ==
    a.tag = b.tag /\ Node_eq(TypeSpecifier_eq, a.specifier, b.specifier)

\* No Extension value is built by the model: every extensions list is empty.
Extension_eq(a, b) == a.tag = b.tag

TypeQualifier_eq(a, b) == a.tag = b.tag

PointerQualifier_eq(a, b) == a.tag = b.tag

ArraySize_eq(a, b) ==
    /\ a.tag = b.tag
    /\ a.tag \in {"ArraySize::VariableExpression", "ArraySize::StaticExpression"} =>
           Node_eq(Expression_eq, a.expression, b.expression)

Ellipsis_eq(a, b) == a.tag = b.tag

RECURSIVE Declarator_eq(_, _)
RECURSIVE DeclaratorKind_eq(_, _)
RECURSIVE DerivedDeclarator_eq(_, _)
RECURSIVE ParameterDeclaration_eq(_, _)

KindOnlyDeclarator_eq(a, b) ==
    /\ Node_eq(DeclaratorKind_eq, a.kind, b.kind)
    /\ Vec_eq(LAMBDA x, y : Node_eq(Extension_eq, x, y), a.extensions, b.extensions)

Declarator_eq(a, b) ==
    /\ Node_eq(DeclaratorKind_eq, a.kind, b.kind)
    /\ Vec_eq(LAMBDA x, y : Node_eq(DerivedDeclarator_eq, x, y), a.derived, b.derived)
    /\ Vec_eq(LAMBDA x, y : Node_eq(Extension_eq, x, y), a.extensions, b.extensions)

DeclaratorKind_eq(a, b) ==
    /\ a.tag = b.tag
    /\ a.tag = "DeclaratorKind::Identifier" =>
           Node_eq(Identifier_eq, a.identifier, b.identifier)
    /\ a.tag = "DeclaratorKind::Declarator" =>
           Node_eq(Declarator_eq, a.declarator, b.declarator)

DerivedDeclarator_eq(a, b) ==
    /\ a.tag = b.tag
    /\ a.tag = "DerivedDeclarator::Pointer" =>
           Vec_eq(LAMBDA x, y : Node_eq(PointerQualifier_eq, x, y),
                  a.qualifiers, b.qualifiers)
    /\ a.tag = "DerivedDeclarator::Array" =>
           /\ Vec_eq(LAMBDA x, y : Node_eq(TypeQualifier_eq, x, y),
                     a.qualifiers, b.qualifiers)
           /\ ArraySize_eq(a.size, b.size)
    /\ a.tag = "DerivedDeclarator::Function" =>
           /\ Vec_eq(LAMBDA x, y : Node_eq(ParameterDeclaration_eq, x, y),
                     a.parameters, b.parameters)
           /\ Ellipsis_eq(a.ellipsis, b.ellipsis)
    /\ a.tag = "DerivedDeclarator::KRFunction" =>
           Vec_eq(LAMBDA x, y : Node_eq(Identifier_eq, x, y),
                  a.identifiers, b.identifiers)

ParameterDeclaration_eq(a, b) ==
    /\ Vec_eq(LAMBDA x, y : Node_eq(DeclarationSpecifier_eq, x, y),
              a.specifiers, b.specifiers)
    /\ Option_eq(LAMBDA x, y : Node_eq(Declarator_eq, x, y),
                 a.declarator, b.declarator)
    /\ Vec_eq(LAMBDA x, y : Node_eq(Extension_eq, x, y), a.extensions, b.extensions)

TypeName_eq(a, b) ==
    /\ Vec_eq(LAMBDA x, y : Node_eq(SpecifierQualifier_eq, x, y),
              a.specifiers, b.specifiers)
    /\ Option_eq(LAMBDA x, y : Node_eq(Declarator_eq, x, y),
                 a.declarator, b.declarator)

\* ------------------------------------------------------------------------
\* The values the producer draws its inputs from
\* ------------------------------------------------------------------------

\* `int` as a declaration specifier list, and as a specifier-qualifier list.
IntSpecifiers(s) ==
    << Node(DeclarationSpecifier_TypeSpecifier(Node(TypeSpecifier_Int, s)), s) >>

IntQualifiers(s) ==
    << Node(SpecifierQualifier_TypeSpecifier(Node(TypeSpecifier_Int, s)), s) >>

\* The constant expression `3`.
Three(s) ==
    Node(Expression_Constant(Node(Constant_Integer(Integer_Decimal("3")), s)), s)

\* `*`
PointerElement(s) == Node(DerivedDeclarator_Pointer(<< >>), s)

\* `[3]`: outer span s, the size expression at span e
ArrayElement(s, e) ==
    Node(DerivedDeclarator_Array(<< >>, ArraySize_VariableExpression(Box(Three(e)))), s)

\* `(int)`: outer span s, the parameter at span e
FunctionElement(s, e) ==
    Node(DerivedDeclarator_Function(
             << Node(ParameterDeclaration(IntSpecifiers(e), None, << >>), e) >>,
             Ellipsis_None), s)

\* `(x)`: outer span s, the identifier at span e
KRFunctionElement(s, e) ==
    Node(DerivedDeclarator_KRFunction(<< Node(Identifier("x"), e) >>), s)

DerivedChoices ==
    { PointerElement(NoSpan), ArrayElement(NoSpan, NoSpan),
      FunctionElement(NoSpan, NoSpan), KRFunctionElement(NoSpan, NoSpan) }

KindChoices ==
    { Node(DeclaratorKind_Abstract, NoSpan) } \cup
    { Node(DeclaratorKind_Identifier(Node(Identifier(n), NoSpan)), NoSpan) : n \in Names }

\* All sequences over S of length at most n.
RECURSIVE SeqsUpTo(_, _)
SeqsUpTo(S, n) ==
    IF n = 0 THEN { << >> }
    ELSE LET shorter == SeqsUpTo(S, n - 1)
         IN  shorter \cup { Append(q, x) : q \in { r \in shorter : Len(r) = n - 1 }, x \in S }

\* Number of derived elements of a declarator, all nesting levels together.
RECURSIVE DerivedCount(_)
DerivedCount(d) ==
    Len(d.derived) +
    (IF d.kind.node.tag = "DeclaratorKind::Declarator"
     THEN DerivedCount(d.kind.node.declarator.node) ELSE 0)

\* Levels of nesting of a declarator.
RECURSIVE Nesting(_)
Nesting(d) ==
    IF d.kind.node.tag = "DeclaratorKind::Declarator"
    THEN 1 + Nesting(d.kind.node.declarator.node) ELSE 0

\* The kind reached by following kind = Declarator(...) links to the end.
RECURSIVE InnermostKind(_)
InnermostKind(d) ==
    IF d.kind.node.tag = "DeclaratorKind::Declarator"
    THEN InnermostKind(d.kind.node.declarator.node) ELSE d.kind.node

\* ------------------------------------------------------------------------
\* Declarator text and its reading.  Neither is part of ast.rs: the text is
\* C's declarator syntax (pointers before the direct declarator, array and
\* function parts after it, parentheses around a nested declarator) and the
\* reading is the producer of the specification, which places the array and
\* function parts before the pointers in `derived` (`int *a[3]` gives
\* [Array, Pointer]).  A bracketed or parenthesised part is one token.
\* ------------------------------------------------------------------------

IsPointer(n) == n.node.tag = "DerivedDeclarator::Pointer"

\* The token of one derived element.
DerivedText(n) ==
    CASE n.node.tag = "DerivedDeclarator::Pointer" -> "*"
      [] n.node.tag = "DerivedDeclarator::Array" -> "[3]"
      [] n.node.tag = "DerivedDeclarator::Function" -> "(int)"
      [] n.node.tag = "DerivedDeclarator::KRFunction" -> "(x)"

TokensOf(q) == [i \in 1..Len(q) |-> DerivedText(q[i])]

\* The text of a declarator, as a sequence of tokens.
RECURSIVE DeclaratorText(_)
DeclaratorText(d) ==
    LET kind == d.kind.node
        name == CASE kind.tag = "DeclaratorKind::Abstract" -> << >>
                  [] kind.tag = "DeclaratorKind::Identifier" ->
                         << kind.identifier.node.name >>
                  [] kind.tag = "DeclaratorKind::Declarator" ->
                         << "(" >> \o DeclaratorText(kind.declarator.node) \o << ")" >>
    IN  TokensOf(SelectSeq(d.derived, IsPointer)) \o name
            \o TokensOf(SelectSeq(d.derived, LAMBDA n : ~IsPointer(n)))

SuffixTokens == { "[3]", "(int)", "(x)" }

\* Characters of a token.
Width(tok) ==
    CASE tok = "(int)" -> 5
      [] tok \in { "[3]", "(x)" } -> 3
      [] OTHER -> 1

\* Offset of the first character of token i of toks, the text starting at base.
RECURSIVE StartOf(_, _, _)
StartOf(toks, i, base) ==
    IF i <= 1 THEN base ELSE StartOf(toks, i - 1, base) + Width(toks[i - 1])

\* The span of tokens i..j-1 (empty, at the start of token i, when j = i).
SpanOf(toks, i, j, base) == << StartOf(toks, i, base), StartOf(toks, j, base) >>

ShiftedInnerSpanOf(toks, i, base) ==
    << StartOf(toks, i, base) + 1, StartOf(toks, i + 1, base) + 1 >>

\* The span of the text between the brackets of token i.
InnerSpanOf(toks, i, base) ==
    << StartOf(toks, i, base) + 1, StartOf(toks, i + 1, base) - 1 >>

\* First index from i on whose token is not in S (Len + 1 when there is none).
RECURSIVE SkipWhile(_, _, _)
SkipWhile(toks, i, S) ==
    IF i <= Len(toks) /\ toks[i] \in S THEN SkipWhile(toks, i + 1, S) ELSE i

\* The derived element read from token i.
DerivedAt(toks, i, base) ==
    LET s == SpanOf(toks, i, i + 1, base)
        e == InnerSpanOf(toks, i, base)
    IN  CASE toks[i] = "*" -> PointerElement(s)
          [] toks[i] = "[3]" -> ArrayElement(s, e)
          [] toks[i] = "(int)" -> FunctionElement(s, e)
          [] toks[i] = "(x)" -> KRFunctionElement(s, e)

\* Reads one declarator from token i on: [ok, node, next].
RECURSIVE ParseDeclaratorAt(_, _, _)
ParseDeclaratorAt(toks, i, base) ==
    LET j == SkipWhile(toks, i, { "*" })
        named == j <= Len(toks) /\ toks[j] \in Names
        nested == j <= Len(toks) /\ toks[j] = "("
        inner == IF nested THEN ParseDeclaratorAt(toks, j + 1, base)
                 ELSE [ok |-> FALSE, node |-> None, next |-> j]
        closed == /\ nested /\ inner.ok /\ inner.next > j + 1
                  /\ inner.next <= Len(toks) /\ toks[inner.next] = ")"
        k == IF named THEN j + 1 ELSE IF closed THEN inner.next + 1 ELSE j
        kind == IF named
                THEN DeclaratorKind_Identifier(
                         Node(Identifier(toks[j]), SpanOf(toks, j, k, base)))
                ELSE IF closed THEN DeclaratorKind_Declarator(Box(inner.node))
                ELSE DeclaratorKind_Abstract
        m == SkipWhile(toks, k, SuffixTokens)
        suffixes == [n \in 1..(m - k) |-> DerivedAt(toks, k + n - 1, base)]
        pointers == [n \in 1..(j - i) |-> DerivedAt(toks, i + n - 1, base)]
    IN  [ok |-> (nested => closed) /\ m > i,
         node |-> Node(Declarator(Node(kind, SpanOf(toks, j, k, base)),
                                  suffixes \o pointers, << >>),
                       SpanOf(toks, i, m, base)),
         next |-> m]

\* Reads a whole text as one declarator; None when it is not one.
ParseDeclarator(toks, base) ==
    LET r == ParseDeclaratorAt(toks, 1, base)
    IN  IF r.ok /\ r.next = Len(toks) + 1 THEN Some(r.node) ELSE None

\* ------------------------------------------------------------------------
\* The producer: values built by literal, handed from one owner to the next
\* ------------------------------------------------------------------------

VARIABLES
    decl,     \* the declarator the producer holds: None or Some(Node<Declarator>)
    item,     \* the entity the declarator was moved into: None or Some(Node<..>)
    text,     \* the declarator's text, once reconstructed: None or Some(tokens)
    parsed    \* the re-read declarator: Unread, None (no declarator) or Some(node)

\* The same trees as allocations: every node that lives in a Box or in a Vec is
\* a cell, and holds the addresses of the cells it owns.
VARIABLES
    heap,     \* address -> cell: [tag, children], or the free cell
    owned,    \* addresses of the trees held by a local variable (the roots)
    shared,   \* root of the tree lent to the consumers by `&`, or 0
    readers,  \* bag of the consumers reading: the node each is at, and what it read
    snapshot  \* the cells of the shared tree as they were when it was lent

producerVars == << decl, item, text, parsed >>

ownVars == << heap, owned, shared, readers, snapshot >>

vars == << decl, item, text, parsed, heap, owned, shared, readers, snapshot >>

Addr == 1..MaxCells


FreeCell == [tag |-> "Free", children |-> << >>]

\* Nothing allocated, nothing lent.
OwnStart ==
    /\ heap = [a \in Addr |-> FreeCell]
    /\ owned = { }
    /\ shared = 0
    /\ readers = EmptyBag
    /\ snapshot = << >>

Unread == [tag |-> "Unread"]

Init ==
    /\ decl = None
    /\ item = None
    /\ text = None
    /\ parsed = Unread
    /\ OwnStart

\* Declarator { kind, derived, extensions } with a plain kind.
NewDeclarator ==
    /\ decl = None /\ item = None
    /\ \E kind \in KindChoices, derived \in SeqsUpTo(DerivedChoices, MaxDerived) :
           decl' = Some(Node(Declarator(kind, derived, << >>), NoSpan))
    /\ UNCHANGED << item, text, parsed >>
    /\ UNCHANGED ownVars

\* Declarator { kind: DeclaratorKind::Declarator(Box::new(held)), .. }: the held
\* declarator is moved into the new one.
NestDeclarator ==
    /\ decl # None /\ text = None
    /\ Nesting(decl.value.node) < MaxNesting
    /\ \E derived \in SeqsUpTo(DerivedChoices, MaxDerived - DerivedCount(decl.value.node)) :
           decl' = Some(Node(Declarator(
                                 Node(DeclaratorKind_Declarator(Box(decl.value)), NoSpan),
                                 derived, << >>), NoSpan))
    /\ UNCHANGED << item, text, parsed >>
    /\ UNCHANGED ownVars

\* TypeName { specifiers, declarator }: the held declarator, if any, is moved in.
NewTypeName ==
    /\ item = None /\ text = None
    /\ item' = Some(Node(TypeName(IntQualifiers(NoSpan), decl), NoSpan))
    /\ decl' = None
    /\ UNCHANGED << text, parsed >>
    /\ UNCHANGED ownVars

\* `int x;` as a K&R parameter-type declaration.
ParameterTypeDeclaration ==
    Node(Declaration_Declaration(
             IntSpecifiers(NoSpan),
             << Node(InitDeclarator(
                         Node(Declarator(
                                  Node(DeclaratorKind_Identifier(
                                           Node(Identifier("x"), NoSpan)), NoSpan),
                                  << >>, << >>), NoSpan),
                         None), NoSpan) >>), NoSpan)

\* FunctionDefinition { specifiers, declarator, declarations, statement }: the
\* held declarator is moved in.
NewFunctionDefinition ==
    /\ decl # None /\ item = None /\ text = None
    /\ \E declarations \in { << >>, << ParameterTypeDeclaration >> } :
           item' = Some(Node(FunctionDefinition(
                                 IntSpecifiers(NoSpan), decl.value, declarations,
                                 Node(Statement_Compound(<< >>), NoSpan)), NoSpan))
    /\ decl' = None
    /\ UNCHANGED << text, parsed >>
    /\ UNCHANGED ownVars

\* The text of the held declarator is written out.
Reconstruct ==
    /\ decl # None /\ text = None
    /\ text' = Some(DeclaratorText(decl.value.node))
    /\ UNCHANGED << decl, item, parsed >>
    /\ UNCHANGED ownVars

\* The text is read back, starting at some offset of the source.
Reread ==
    /\ text # None /\ parsed = Unread
    /\ \E base \in 0..MaxOffset : parsed' = ParseDeclarator(text.value, base)
    /\ UNCHANGED << decl, item, text >>
    /\ UNCHANGED ownVars

Next ==
    \/ NewDeclarator
    \/ NestDeclarator
    \/ NewTypeName
    \/ NewFunctionDefinition
    \/ Reconstruct
    \/ Reread

Spec == Init /\ [][Next]_vars

\* ------------------------------------------------------------------------
\* Properties of the declarator
\* ------------------------------------------------------------------------

\* The variants of a derived sequence, in order.
Variants(q) == [i \in 1..Len(q) |-> q[i].node.tag]

\* The modifiers of a declarator from the innermost parentheses outwards.
RECURSIVE DerivedChain(_)
DerivedChain(d) ==
    (IF d.kind.node.tag = "DeclaratorKind::Declarator"
     THEN DerivedChain(d.kind.node.declarator.node) ELSE << >>)
    \o Variants(d.derived)

\* `derived` lists the modifiers as the text does: pointers, then the rest.
RECURSIVE InTextOrder(_)
InTextOrder(d) ==
    /\ d.derived = SelectSeq(d.derived, IsPointer)
                       \o SelectSeq(d.derived, LAMBDA n : ~IsPointer(n))
    /\ d.kind.node.tag = "DeclaratorKind::Declarator" =>
           InTextOrder(d.kind.node.declarator.node)

\* `derived` lists the array and function parts, then the pointers, at every
\* level, and every level has some text.
RECURSIVE InProducerOrder(_)
InProducerOrder(d) ==
    /\ d.derived = SelectSeq(d.derived, LAMBDA n : ~IsPointer(n))
                       \o SelectSeq(d.derived, IsPointer)
    /\ d.kind.node.tag = "DeclaratorKind::Abstract" => d.derived # << >>
    /\ d.kind.node.tag = "DeclaratorKind::Declarator" =>
           InProducerOrder(d.kind.node.declarator.node)

RoundTripDone == decl # None /\ text # None /\ parsed # Unread

GivenBack == parsed # None /\ Declarator_eq(parsed.value.node, decl.value.node)

\* C1 as stated, for the declarators that name an identifier: the derived
\* sequence lists the modifiers in the order of the text, and reading the text
\* back gives the same declarator.
C1_AsStated ==
    (RoundTripDone /\ InnermostKind(decl.value.node).tag = "DeclaratorKind::Identifier") =>
        InTextOrder(decl.value.node) /\ GivenBack

\* C1, amended: a declarator is given back by the round trip through its text
\* exactly when its derived sequence is in the producer's order (array and
\* function parts in text order, then the pointers, at every nesting level);
\* any other order shares its text with that one.  The text itself survives
\* every reading.
C1_RoundTrip ==
    RoundTripDone =>
        /\ GivenBack <=> InProducerOrder(decl.value.node)
        /\ parsed # None =>
               /\ DeclaratorText(parsed.value.node) = text.value
               /\ InProducerOrder(parsed.value.node)

\* A declarator with a pointer and an array part made the round trip.
C1_Witness ==
    /\ RoundTripDone /\ GivenBack
    /\ Variants(decl.value.node.derived) =
           << "DerivedDeclarator::Array", "DerivedDeclarator::Pointer" >>

NamedKind(n) == Node(DeclaratorKind_Identifier(Node(Identifier(n), NoSpan)), NoSpan)

\* kind = Identifier("a"), derived = [Array{size: VariableExpression(3)}, Pointer([])]
ArrayOfPointers ==
    Declarator(NamedKind("a"),
               << ArrayElement(NoSpan, NoSpan), PointerElement(NoSpan) >>, << >>)

\* kind = Identifier("a"), derived = [Pointer([]), Array{size: VariableExpression(3)}]
PointerThenArray ==
    Declarator(NamedKind("a"),
               << PointerElement(NoSpan), ArrayElement(NoSpan, NoSpan) >>, << >>)

ReadOf(toks) == text = Some(toks) /\ parsed # Unread

\* C2: the declarator of `int *a[3];` is named a, its derived sequence is the
\* array (of size expression 3) followed by the pointer without qualifiers, and
\* it differs from the declarator with the two in the other order.
C2_ArrayBeforePointer ==
    ReadOf(<< "*", "a", "[3]" >>) =>
        /\ parsed # None
        /\ LET d == parsed.value.node
           IN  /\ d.kind.node.tag = "DeclaratorKind::Identifier"
               /\ d.kind.node.identifier.node.name = "a"
               /\ Variants(d.derived) =
                      << "DerivedDeclarator::Array", "DerivedDeclarator::Pointer" >>
               /\ d.derived[1].node.size.tag = "ArraySize::VariableExpression"
               /\ d.derived[1].node.size.expression.node.constant.node.integer.text = "3"
               /\ d.derived[2].node.qualifiers = << >>
               /\ Declarator_eq(d, ArrayOfPointers)
               /\ ~Declarator_eq(d, PointerThenArray)

C2_Witness == ReadOf(<< "*", "a", "[3]" >>)

\* `(*f)(int)` by literal
PointerToFunction ==
    Declarator(
        Node(DeclaratorKind_Declarator(
                 Box(Node(Declarator(NamedKind("f"), << PointerElement(NoSpan) >>, << >>),
                          NoSpan))), NoSpan),
        << FunctionElement(NoSpan, NoSpan) >>, << >>)

\* `*f(int)` by literal
FunctionReturningPointer ==
    Declarator(NamedKind("f"),
               << FunctionElement(NoSpan, NoSpan), PointerElement(NoSpan) >>, << >>)

Reversed(q) == [i \in 1..Len(q) |-> q[Len(q) + 1 - i]]

\* C3: the declarator of `void (*f)(int);` is a Function modifier (parameters
\* [int], no ellipsis) around the parenthesised declarator of f, which carries
\* the Pointer: its modifiers read Pointer, Function.  The declarator of
\* `void *f(int);` is named directly and its modifiers are the reverse.  The
\* two are never equal.
C3_PointerToFunction ==
    /\ ReadOf(<< "(", "*", "f", ")", "(int)" >>) =>
           /\ parsed # None
           /\ LET d == parsed.value.node
                  inner == d.kind.node.declarator.node
              IN  /\ d.kind.node.tag = "DeclaratorKind::Declarator"
                  /\ inner.kind.node.tag = "DeclaratorKind::Identifier"
                  /\ inner.kind.node.identifier.node.name = "f"
                  /\ Variants(inner.derived) = << "DerivedDeclarator::Pointer" >>
                  /\ inner.derived[1].node.qualifiers = << >>
                  /\ Variants(d.derived) = << "DerivedDeclarator::Function" >>
                  /\ Len(d.derived[1].node.parameters) = 1
                  /\ d.derived[1].node.ellipsis = Ellipsis_None
                  /\ DerivedChain(d) =
                         << "DerivedDeclarator::Pointer", "DerivedDeclarator::Function" >>
                  /\ Declarator_eq(d, PointerToFunction)
                  /\ ~Declarator_eq(d, FunctionReturningPointer)
                  /\ ~Declarator_eq(FunctionReturningPointer, d)
    /\ ReadOf(<< "*", "f", "(int)" >>) =>
           /\ parsed # None
           /\ LET d == parsed.value.node
              IN  /\ d.kind.node.tag = "DeclaratorKind::Identifier"
                  /\ d.kind.node.identifier.node.name = "f"
                  /\ DerivedChain(d) = Reversed(DerivedChain(PointerToFunction))
                  /\ Variants(d.derived) = DerivedChain(d)
                  /\ Declarator_eq(d, FunctionReturningPointer)
                  /\ ~Declarator_eq(d, PointerToFunction)
                  /\ ~Declarator_eq(PointerToFunction, d)

C3_Witness == ReadOf(<< "(", "*", "f", ")", "(int)" >>)

\* ------------------------------------------------------------------------
\* What each entity holds
\* ------------------------------------------------------------------------

Field(owner, name, v) == { [owner |-> owner.tag, field |-> name, value |-> v] }

Elements(owner, name, q) ==
    { [owner |-> owner.tag, field |-> name, value |-> q[i]] : i \in 1..Len(q) }

Optional(owner, name, o) ==
    IF o.tag = "Some" THEN Field(owner, name, o.value) ELSE { }

\* The entities held directly by entity e, each with the field that holds it.
\* A String (a name, the text of a constant) is not an entity.
Held(e) ==
    CASE e.tag = "Declarator" ->
             Field(e, "kind", e.kind) \cup Elements(e, "derived", e.derived)
                 \cup Elements(e, "extensions", e.extensions)
      [] e.tag = "DeclaratorKind::Identifier" -> Field(e, "0", e.identifier)
      [] e.tag = "DeclaratorKind::Declarator" -> Field(e, "0", e.declarator)
      [] e.tag = "DerivedDeclarator::Pointer" -> Elements(e, "0", e.qualifiers)
      [] e.tag = "DerivedDeclarator::Array" ->
             Elements(e, "qualifiers", e.qualifiers) \cup Field(e, "size", e.size)
      [] e.tag = "DerivedDeclarator::Function" ->
             Elements(e, "parameters", e.parameters)
                 \cup Field(e, "ellipsis", e.ellipsis)
      [] e.tag = "DerivedDeclarator::KRFunction" -> Elements(e, "0", e.identifiers)
      [] e.tag \in {"ArraySize::VariableExpression", "ArraySize::StaticExpression"} ->
             Field(e, "0", e.expression)
      [] e.tag = "ParameterDeclaration" ->
             Elements(e, "specifiers", e.specifiers)
                 \cup Optional(e, "declarator", e.declarator)
                 \cup Elements(e, "extensions", e.extensions)
      [] e.tag \in {"DeclarationSpecifier::TypeSpecifier",
                    "SpecifierQualifier::TypeSpecifier"} -> Field(e, "0", e.specifier)
      [] e.tag = "Expression::Identifier" -> Field(e, "0", e.identifier)
      [] e.tag = "Expression::Constant" -> Field(e, "0", e.constant)
      [] e.tag = "Constant::Integer" -> Field(e, "0", e.integer)
      [] e.tag = "TypeName" ->
             Elements(e, "specifiers", e.specifiers)
                 \cup Optional(e, "declarator", e.declarator)
      [] e.tag = "InitDeclarator" ->
             Field(e, "declarator", e.declarator)
                 \cup Optional(e, "initializer", e.initializer)
      [] e.tag = "Declaration::Declaration" ->
             Elements(e, "specifiers", e.specifiers)
                 \cup Elements(e, "declarators", e.declarators)
      [] e.tag = "Statement::Compound" -> Elements(e, "0", e.items)
      [] e.tag = "FunctionDefinition" ->
             Elements(e, "specifiers", e.specifiers)
                 \cup Field(e, "declarator", e.declarator)
                 \cup Elements(e, "declarations", e.declarations)
                 \cup Field(e, "statement", e.statement)
      [] OTHER -> { }

\* The entity in a holding, without its node if it has one.
Entity(h) == IF IsNode(h.value) THEN h.value.node ELSE h.value

\* Every holding in the tree of entity e.
RECURSIVE AllHeld(_)
AllHeld(e) == Held(e) \cup UNION { AllHeld(Entity(h)) : h \in Held(e) }

\* The trees the producer owns.
Roots ==
    (IF decl # None THEN { decl.value } ELSE { })
        \cup (IF item # None THEN { item.value } ELSE { })
        \cup (IF parsed \notin { Unread, None } THEN { parsed.value } ELSE { })

BareFields ==
    { << "DerivedDeclarator::Array", "size" >>,
      << "DerivedDeclarator::Function", "ellipsis" >>,
      << "Constant::Integer", "0" >> }

RECURSIVE NodeChildren(_)
NodeChildren(e) ==
    UNION { IF IsNode(h.value) THEN { h.value } ELSE NodeChildren(h.value) :
            h \in Held(e) }

Within(inner, outer) ==
    /\ outer[1] <= inner[1]
    /\ inner[1] <= inner[2]
    /\ inner[2] <= outer[2]

RECURSIVE SpansNested(_)
SpansNested(n) ==
    \A c \in NodeChildren(n.node) : Within(c.span, n.span) /\ SpansNested(c)

HoldsTypeName == item # None /\ item.value.node.tag = "TypeName"

HoldsFunctionDefinition == item # None /\ item.value.node.tag = "FunctionDefinition"

\* C6: the declarator of a TypeName, when present, is abstract at its
\* innermost level.
C6_TypeNameAbstract ==
    (HoldsTypeName /\ item.value.node.declarator # None) =>
        InnermostKind(item.value.node.declarator.value.node).tag =
            "DeclaratorKind::Abstract"

\* C7 as stated: `declarations` is non-empty only when the declarator has a
\* KRFunction element and no new-style Function element.
C7_AsStated ==
    (HoldsFunctionDefinition /\ item.value.node.declarations # << >>) =>
        LET chain == DerivedChain(item.value.node.declarator.node)
        IN  /\ \E i \in 1..Len(chain) : chain[i] = "DerivedDeclarator::KRFunction"
            /\ \A i \in 1..Len(chain) : chain[i] # "DerivedDeclarator::Function"

\* The entities held in the given field of the given kind of owner, anywhere
\* in the tree of e.
HeldIn(e, owner, name) ==
    { Entity(h).tag : h \in { g \in AllHeld(e) : g.owner = owner /\ g.field = name } }

\* C7, amended: a function definition is built from its declarator and its
\* K&R declarations as given, each in its own field: the declarator is stored
\* unchanged, `declarations` holds Declaration entities only, a parameter list
\* holds ParameterDeclaration entities only, and no Declaration is found inside
\* the declarator.  (Nothing ties the two fields together: see C7_Witness.)
C7_KeptApart ==
    [][ (item = None /\ item' # None /\ item'.value.node.tag = "FunctionDefinition") =>
            LET fd == item'.value.node
            IN  /\ fd.declarator = decl.value
                /\ HeldIn(fd, "FunctionDefinition", "declarations")
                       \subseteq { "Declaration::Declaration" }
                /\ HeldIn(fd, "DerivedDeclarator::Function", "parameters")
                       \subseteq { "ParameterDeclaration" }
                /\ \A h \in AllHeld(fd.declarator.node) :
                       Entity(h).tag # "Declaration::Declaration" ]_vars

\* A function definition with K&R declarations beside a new-style parameter
\* list: the type admits it.
C7_Witness ==
    /\ HoldsFunctionDefinition
    /\ item.value.node.declarations # << >>
    /\ Variants(item.value.node.declarator.node.derived) =
           << "DerivedDeclarator::Function" >>

\* ------------------------------------------------------------------------
\* Equality
\* ------------------------------------------------------------------------

\* The tree of node n with every span replaced by NoSpan.
RECURSIVE Unlocated(_)
Unlocated(n) ==
    LET e == n.node
        Each(q) == [i \in 1..Len(q) |-> Unlocated(q[i])]
        Opt(o) == IF o.tag = "Some" THEN Some(Unlocated(o.value)) ELSE o
        bare ==
            CASE e.tag = "Declarator" ->
                     [e EXCEPT !.kind = Unlocated(@), !.derived = Each(@),
                               !.extensions = Each(@)]
              [] e.tag = "DeclaratorKind::Identifier" ->
                     [e EXCEPT !.identifier = Unlocated(@)]
              [] e.tag = "DeclaratorKind::Declarator" ->
                     [e EXCEPT !.declarator = Unlocated(@)]
              [] e.tag = "DerivedDeclarator::Pointer" ->
                     [e EXCEPT !.qualifiers = Each(@)]
              [] e.tag = "DerivedDeclarator::Array" ->
                     [e EXCEPT !.qualifiers = Each(@),
                               !.size = IF "expression" \in DOMAIN @
                                        THEN [@ EXCEPT !.expression = Unlocated(@)]
                                        ELSE @]
              [] e.tag = "DerivedDeclarator::Function" ->
                     [e EXCEPT !.parameters = Each(@)]
              [] e.tag = "DerivedDeclarator::KRFunction" ->
                     [e EXCEPT !.identifiers = Each(@)]
              [] e.tag = "ParameterDeclaration" ->
                     [e EXCEPT !.specifiers = Each(@), !.declarator = Opt(@),
                               !.extensions = Each(@)]
              [] e.tag \in {"DeclarationSpecifier::TypeSpecifier",
                            "SpecifierQualifier::TypeSpecifier"} ->
                     [e EXCEPT !.specifier = Unlocated(@)]
              [] e.tag = "Expression::Identifier" ->
                     [e EXCEPT !.identifier = Unlocated(@)]
              [] e.tag = "Expression::Constant" ->
                     [e EXCEPT !.constant = Unlocated(@)]
              [] OTHER -> e
    IN  Node(bare, NoSpan)

ExpressionTags ==
    { "Expression::Identifier", "Expression::UnaryOperator",
      "Expression::BinaryOperator", "Expression::Comma" }

StatementTags ==
    { "Statement::Expression", "Statement::Labeled", "Statement::Compound" }

\* The variants whose children are the elements of a Vec.
VecTags == { "Expression::Comma", "Statement::Compound" }

\* Most children any variant holds.
MaxChildren == IF MaxWidth > 2 THEN MaxWidth ELSE 2

\* Whether a node of variant tag may hold children of the given variants, in
\* that order (operand: Box; lhs, rhs: Box; Comma: Vec; Expression: Option<Box>;
\* Labeled.statement: Box; Compound: Vec of BlockItem::Statement).
Accepts(tag, kinds) ==
    LET all(S) == \A i \in 1..Len(kinds) : kinds[i] \in S
    IN  CASE tag = "Expression::Identifier" -> kinds = << >>
          [] tag = "Expression::UnaryOperator" -> Len(kinds) = 1 /\ all(ExpressionTags)
          [] tag = "Expression::BinaryOperator" -> Len(kinds) = 2 /\ all(ExpressionTags)
          [] tag = "Expression::Comma" -> Len(kinds) <= MaxWidth /\ all(ExpressionTags)
          [] tag = "Statement::Expression" -> Len(kinds) <= 1 /\ all(ExpressionTags)
          [] tag = "Statement::Labeled" -> Len(kinds) = 1 /\ all(StatementTags)
          [] tag = "Statement::Compound" -> Len(kinds) <= MaxWidth /\ all(StatementTags)

Live(h) == { a \in Addr : h[a] # FreeCell }

Kids(h, a) == { h[a].children[i] : i \in 1..Len(h[a].children) }

\* The cells reached from S in at most n steps down.
RECURSIVE Reach(_, _, _)
Reach(h, S, n) ==
    IF n = 0 THEN S ELSE Reach(h, S \cup UNION { Kids(h, a) : a \in S }, n - 1)

Subtree(h, a) == Reach(h, { a }, MaxCells)

Lowest(S) == CHOOSE a \in S : \A b \in S : a <= b

\* The sequences of distinct elements of S, of length at most n.
DistinctSeqs(S, n) ==
    { q \in SeqsUpTo(S, n) : \A i, j \in 1..Len(q) : i # j => q[i] # q[j] }

NotMoved(kids) == { }

\* A value placed in a Box, a Vec or a field is moved: its former owner no
\* longer holds it.
Moved(kids) == { kids[i] : i \in 1..Len(kids) }

ClonedShallow(h, a) == { a }

\* The cells the derived Clone copies: the node and everything it owns.
Cloned(h, a) == Subtree(h, a)

\* A node is built from trees the producer holds, which move into it.
Construct ==
    /\ Live(heap) # Addr
    /\ \E tag \in ExpressionTags \cup StatementTags,
          kids \in DistinctSeqs(owned \ { shared }, MaxChildren) :
           /\ Accepts(tag, [i \in 1..Len(kids) |-> heap[kids[i]].tag])
           /\ LET new == Lowest(Addr \ Live(heap))
              IN  /\ heap' = [heap EXCEPT ![new] = [tag |-> tag, children |-> kids]]
                  /\ owned' = (owned \ Moved(kids)) \cup { new }
    /\ UNCHANGED << shared, readers, snapshot >>
    /\ UNCHANGED producerVars

\* Vec::push on a node of a tree that is not lent: a held tree moves in.
Push ==
    /\ \E a \in Live(heap), child \in owned \ { shared } :
           /\ heap[a].tag \in VecTags
           /\ shared # 0 => a \notin Subtree(heap, shared)
           /\ a \notin Subtree(heap, child)
           /\ Accepts(heap[a].tag,
                      [i \in 1..(Len(heap[a].children) + 1) |->
                           IF i <= Len(heap[a].children)
                           THEN heap[heap[a].children[i]].tag ELSE heap[child].tag])
           /\ heap' = [heap EXCEPT ![a].children = Append(@, child)]
           /\ owned' = owned \ Moved(<< child >>)
    /\ UNCHANGED << shared, readers, snapshot >>
    /\ UNCHANGED producerVars

\* The derived Clone, through a reference to any node: the copy is a new tree.
Clone ==
    /\ \E a \in Live(heap) :
           LET cells == Cloned(heap, a)
               free == Addr \ Live(heap)
               rank(x) == Cardinality({ y \in cells : y < x })
               to(x) == CHOOSE f \in free : Cardinality({ g \in free : g < f }) = rank(x)
               from(f) == CHOOSE x \in cells : to(x) = f
               targets == { to(x) : x \in cells }
           IN  /\ Cardinality(free) >= Cardinality(cells)
               /\ heap' = [f \in Addr |->
                             IF f \in targets
                             THEN [tag |-> heap[from(f)].tag,
                                   children |->
                                       [i \in 1..Len(heap[from(f)].children) |->
                                            LET k == heap[from(f)].children[i]
                                            IN  IF k \in cells THEN to(k) ELSE k]]
                             ELSE heap[f]]
               /\ owned' = owned \cup { to(a) }
    /\ UNCHANGED << shared, readers, snapshot >>
    /\ UNCHANGED producerVars

\* A held tree that is not lent goes out of scope: the node and everything it
\* owns is freed.
Drop ==
    /\ \E r \in owned \ { shared } :
           /\ heap' = [a \in Addr |-> IF a \in Subtree(heap, r) THEN FreeCell ELSE heap[a]]
           /\ owned' = owned \ { r }
    /\ UNCHANGED << shared, readers, snapshot >>
    /\ UNCHANGED producerVars

\* The built tree is lent to the consumers.
Share ==
    /\ shared = 0
    /\ \E r \in owned :
           /\ shared' = r
           /\ snapshot' = [a \in Subtree(heap, r) |-> heap[a]]
    /\ UNCHANGED << heap, owned, readers >>
    /\ UNCHANGED producerVars

\* What a consumer holds after reading the node at address a.
Reading(a) == [at |-> a, saw |-> heap[a]]

\* A consumer starts at the root and reads it.
Enter ==
    /\ shared # 0
    /\ BagCardinality(readers) < MaxConsumers
    /\ readers' = readers (+) SetToBag({ Reading(shared) })
    /\ UNCHANGED << heap, owned, shared, snapshot >>
    /\ UNCHANGED producerVars

\* A consumer follows a field to a child and reads it.
Descend ==
    /\ \E r \in BagToSet(readers) :
           \E k \in Kids(heap, r.at) :
               readers' = (readers (-) SetToBag({ r })) (+) SetToBag({ Reading(k) })
    /\ UNCHANGED << heap, owned, shared, snapshot >>
    /\ UNCHANGED producerVars

\* A consumer finishes.
Leave ==
    /\ \E r \in BagToSet(readers) :
           readers' = readers (-) SetToBag({ r })
    /\ UNCHANGED << heap, owned, shared, snapshot >>
    /\ UNCHANGED producerVars

\* The loan ends when no consumer is reading.
Release ==
    /\ shared # 0
    /\ readers = EmptyBag
    /\ shared' = 0
    /\ snapshot' = << >>
    /\ UNCHANGED << heap, owned, readers >>
    /\ UNCHANGED producerVars

OwnInit ==
    /\ decl = None
    /\ item = None
    /\ text = None
    /\ parsed = Unread
    /\ OwnStart

OwnNext ==
    \/ Construct
    \/ Push
    \/ Clone
    \/ Drop
    \/ Share
    \/ Release
    \/ Enter
    \/ Descend
    \/ Leave

OwnSpec == OwnInit /\ [][OwnNext]_vars

Occurrences(h, a) ==
    Cardinality({ s \in Live(h) \X (1..MaxChildren) :
                    s[2] <= Len(h[s[1]].children) /\ h[s[1]].children[s[2]] = a })

Hierarchical ==
    /\ owned \subseteq Live(heap)
    /\ \A a \in Live(heap) :
           /\ Occurrences(heap, a) = IF a \in owned THEN 0 ELSE 1
           /\ Kids(heap, a) \subseteq Live(heap)
           /\ a \notin Reach(heap, Kids(heap, a), MaxCells)
    /\ \A r1, r2 \in owned :
           r1 # r2 => Subtree(heap, r1) \cap Subtree(heap, r2) = { }

\* C10: every node but a root has exactly one parent, no node is reached from
\* itself or from two trees, and a step that frees cells frees exactly the
\* subtree of one held root and changes no other cell.
C10_Hierarchy ==
    /\ []Hierarchical
    /\ [][ LET freed == { a \in Addr : heap[a] # FreeCell /\ heap'[a] = FreeCell }
           IN  freed # { } =>
                   \E r \in owned :
                       /\ freed = Subtree(heap, r)
                       /\ owned' = owned \ { r }
                       /\ \A a \in Addr \ freed : heap'[a] = heap[a] ]_vars

\* A tree was dropped while a tree with children stays.
C10_Witness ==
    \E a, b \in Addr :
        /\ a < b
        /\ heap[a] = FreeCell
        /\ Len(heap[b].children) > 0

\* ------------------------------------------------------------------------
\* Comma expressions and labeled statements
\* ------------------------------------------------------------------------

\* BinaryOperator: every variant, with the token its documentation gives it.
BinaryOperatorToken ==
    [ Index |-> "[", Multiply |-> "*", Divide |-> "/", Modulo |-> "%",
      Plus |-> "+", Minus |-> "-", ShiftLeft |-> "<<", ShiftRight |-> ">>",
      Less |-> "<", Greater |-> ">", LessOrEqual |-> "<=",
      GreaterOrEqual |-> ">=", Equals |-> "==", NotEquals |-> "!=",
      BitwiseAnd |-> "&", BitwiseXor |-> "^", BitwiseOr |-> "|",
      LogicalAnd |-> "&&", LogicalOr |-> "||", Assign |-> "=",
      AssignMultiply |-> "*=", AssignDivide |-> "/=", AssignModulo |-> "%=",
      AssignPlus |-> "+=", AssignMinus |-> "-=", AssignShiftLeft |-> "<<=",
      AssignShiftRight |-> ">>=", AssignBitwiseAnd |-> "&=",
      AssignBitwiseXor |-> "^=", AssignBitwiseOr |-> "|=" ]

BinaryOperator == DOMAIN BinaryOperatorToken

Expression_BinaryOperator(operator, lhs, rhs) ==
    [tag |-> "Expression::BinaryOperator", operator |-> operator,
     lhs |-> lhs, rhs |-> rhs]

RECURSIVE PairedComma(_)
PairedComma(expressions) ==
    IF Len(expressions) <= 2
    THEN [tag |-> "Expression::Comma", expressions |-> expressions]
    ELSE [tag |-> "Expression::Comma",
          expressions |->
              << expressions[1],
                 Node(PairedComma(Tail(expressions)),
                      << expressions[2].span[1],
                         expressions[Len(expressions)].span[2] >>) >>]

\* Expression::Comma(Vec<Node<Expression>>)
Expression_Comma(expressions) ==
    [tag |-> "Expression::Comma", expressions |-> expressions]

\* Statement::Expression(Option<Box<Node<Expression>>>)
Statement_Expression(expression) ==
    [tag |-> "Statement::Expression", expression |-> expression]

Label_Identifier(n) == [tag |-> "Label::Identifier", identifier |-> n]

Label_Case(e) == [tag |-> "Label::Case", expression |-> e]

Label_Default == [tag |-> "Label::Default"]

\* A later label takes the place of the one the statement already has.
RelabeledStatement(label, statement) ==
    IF statement.node.tag = "Statement::Labeled"
    THEN [tag |-> "Statement::Labeled", label |-> label,
          statement |-> statement.node.statement]
    ELSE [tag |-> "Statement::Labeled", label |-> label, statement |-> statement]

\* Statement::Labeled { label: Node<Label>, statement: Box<Node<Statement>> }
Statement_Labeled(label, statement) ==
    [tag |-> "Statement::Labeled", label |-> label, statement |-> statement]

\* The labels the model puts in front of statements: one of each variant, and
\* a second goto-label.
Labels ==
    { Label_Identifier(Node(Identifier(n), NoSpan)) : n \in Names }
        \cup { Label_Case(Box(Node(Expression_Identifier(Node(Identifier("a"), NoSpan)),
                                   NoSpan))),
               Label_Default }

\* Number of labels in front of a statement.
RECURSIVE LabelCount(_)
LabelCount(statement) ==
    IF statement.node.tag = "Statement::Labeled"
    THEN 1 + LabelCount(statement.node.statement)
    ELSE 0

\* The text of expressions: names, assignment, comma and parentheses.
ExpressionTokens == Names \cup { BinaryOperatorToken.Assign, ",", "(", ")" }

TokenAt(toks, i) == IF i \in 1..Len(toks) THEN toks[i] ELSE ""

\* Parentheses opened and not yet closed in the first k tokens.
ParenDepth(toks, k) ==
    Cardinality({ i \in 1..k : toks[i] = "(" })
        - Cardinality({ i \in 1..k : toks[i] = ")" })

\* Whether token t may follow the tokens written so far (C11 6.5.1, 6.5.16,
\* 6.5.17).
Follows(toks, t) ==
    LET last == TokenAt(toks, Len(toks))
    IN  CASE t \in Names -> last \in { "", ",", "=", "(" }
          [] t = "(" -> /\ last \in { "", ",", "=", "(" }
                        /\ ParenDepth(toks, Len(toks)) < MaxNesting
          [] t = ")" -> /\ last \in Names \cup { ")" }
                        /\ ParenDepth(toks, Len(toks)) > 0
          [] OTHER -> last \in Names \cup { ")" }

Failed == [ok |-> FALSE, node |-> None, next |-> 0]

RECURSIVE ExpressionAt(_, _), AssignmentAt(_, _), PrimaryAt(_, _), CommaTail(_, _, _, _)

\* primary-expression: identifier | ( expression ). Parentheses leave no node.
PrimaryAt(toks, i) ==
    IF TokenAt(toks, i) \in Names
    THEN [ok |-> TRUE,
          node |-> Node(Expression_Identifier(Node(Identifier(toks[i]), << i, i + 1 >>)),
                        << i, i + 1 >>),
          next |-> i + 1]
    ELSE IF TokenAt(toks, i) = "("
         THEN LET e == ExpressionAt(toks, i + 1)
              IN  IF e.ok /\ TokenAt(toks, e.next) = ")"
                  THEN [ok |-> TRUE, node |-> e.node, next |-> e.next + 1]
                  ELSE Failed
         ELSE Failed

\* assignment-expression: primary | primary = assignment-expression
AssignmentAt(toks, i) ==
    LET l == PrimaryAt(toks, i)
    IN  IF l.ok /\ TokenAt(toks, l.next) = BinaryOperatorToken.Assign
        THEN LET r == AssignmentAt(toks, l.next + 1)
             IN  IF r.ok
                 THEN [ok |-> TRUE,
                       node |-> Node(Expression_BinaryOperator(
                                         Node("Assign", << l.next, l.next + 1 >>),
                                         Box(l.node), Box(r.node)),
                                     << i, r.next >>),
                       next |-> r.next]
                 ELSE Failed
        ELSE l

\* The operands after the first one of the chain that starts at token i; acc
\* holds the operands read so far.
CommaTail(toks, i, j, acc) ==
    IF TokenAt(toks, j) = ","
    THEN LET a == AssignmentAt(toks, j + 1)
         IN  IF a.ok THEN CommaTail(toks, i, a.next, Append(acc, a.node)) ELSE Failed
    ELSE [ok |-> TRUE,
          node |-> IF Len(acc) = 1
                   THEN acc[1]
                   ELSE Node(Expression_Comma(acc), << i, j >>),
          next |-> j]

\* expression: assignment-expression (, assignment-expression)*
ExpressionAt(toks, i) ==
    LET a == AssignmentAt(toks, i)
    IN  IF a.ok THEN CommaTail(toks, i, a.next, << a.node >>) ELSE Failed

ParseExpression(toks) ==
    LET r == ExpressionAt(toks, 1)
    IN  IF r.ok /\ r.next = Len(toks) + 1 THEN Some(r.node) ELSE None

\* One more token of the expression's text is written.
WriteToken ==
    /\ parsed = Unread /\ item = None
    /\ LET toks == IF text = None THEN << >> ELSE text.value
       IN  /\ Len(toks) < MaxTokens
           /\ \E t \in ExpressionTokens :
                  /\ Follows(toks, t)
                  /\ text' = Some(Append(toks, t))
    /\ UNCHANGED << decl, item, parsed >>
    /\ UNCHANGED ownVars

\* The text is read as an expression.
ReadExpression ==
    /\ text # None /\ parsed = Unread
    /\ parsed' = ParseExpression(text.value)
    /\ UNCHANGED << decl, item, text >>
    /\ UNCHANGED ownVars

\* expression ; becomes Statement::Expression(Some(expression)).
ExpressionStatement ==
    /\ parsed # Unread /\ parsed # None /\ item = None
    /\ item' = Some(Node(Statement_Expression(Some(Box(parsed.value))), NoSpan))
    /\ UNCHANGED << decl, text, parsed >>
    /\ UNCHANGED ownVars

\* ; alone becomes Statement::Expression(None).
EmptyStatement ==
    /\ text = None /\ item = None
    /\ item' = Some(Node(Statement_Expression(None), NoSpan))
    /\ UNCHANGED << decl, text, parsed >>
    /\ UNCHANGED ownVars

\* label : statement becomes Statement::Labeled { label, statement }.
LabelStatement ==
    /\ item # None
    /\ LabelCount(item.value) < MaxLabels
    /\ \E l \in Labels :
           item' = Some(Node(Statement_Labeled(Node(l, NoSpan), Box(item.value)), NoSpan))
    /\ UNCHANGED << decl, text, parsed >>
    /\ UNCHANGED ownVars

SyntaxInit ==
    /\ decl = None
    /\ item = None
    /\ text = None
    /\ parsed = Unread
    /\ OwnStart

SyntaxNext ==
    \/ WriteToken
    \/ ReadExpression
    \/ ExpressionStatement
    \/ EmptyStatement
    \/ LabelStatement

SyntaxSpec == SyntaxInit /\ [][SyntaxNext]_vars

\* The commas of a text that no parenthesis encloses.
TopCommas(toks) ==
    { i \in 1..Len(toks) : toks[i] = "," /\ ParenDepth(toks, i) = 0 }

\* Position of the k-th such comma; 0 before the first operand, one past the
\* text after the last.
CommaAt(toks, k) ==
    IF k = 0 THEN 0
    ELSE IF k > Cardinality(TopCommas(toks)) THEN Len(toks) + 1
    ELSE CHOOSE i \in TopCommas(toks) :
             Cardinality({ j \in TopCommas(toks) : j < i }) = k - 1

\* The text of the k-th operand of the chain.
Operand(toks, k) ==
    SubSeq(toks, CommaAt(toks, k - 1) + 1, CommaAt(toks, k) - 1)

\* The operand is one parenthesised expression.
Parenthesised(seg) ==
    /\ Len(seg) >= 2
    /\ seg[1] = "(" /\ seg[Len(seg)] = ")"
    /\ \A k \in 1..(Len(seg) - 1) : ParenDepth(seg, k) > 0

NamesIn(toks) == SelectSeq(toks, LAMBDA t : t \in Names)

\* The identifiers of an expression, in the order the tree holds them.
RECURSIVE Leaves(_), LeavesOfAll(_)
Leaves(e) ==
    CASE e.node.tag = "Expression::Identifier" -> << e.node.identifier.node.name >>
      [] e.node.tag = "Expression::BinaryOperator" ->
             Leaves(e.node.lhs) \o Leaves(e.node.rhs)
      [] e.node.tag = "Expression::Comma" -> LeavesOfAll(e.node.expressions)

LeavesOfAll(es) ==
    IF es = << >> THEN << >> ELSE Leaves(Head(es)) \o LeavesOfAll(Tail(es))

\* An expression and every expression below it.
RECURSIVE SubExpressions(_)
SubExpressions(e) ==
    { e } \cup
        CASE e.node.tag = "Expression::BinaryOperator" ->
                 SubExpressions(e.node.lhs) \cup SubExpressions(e.node.rhs)
          [] e.node.tag = "Expression::Comma" ->
                 UNION { SubExpressions(e.node.expressions[k]) :
                             k \in 1..Len(e.node.expressions) }
          [] OTHER -> { }

WasRead == parsed # Unread /\ parsed # None /\ text # None

\* C11: an expression read from a text with n commas outside parentheses is one
\* Expression::Comma of n + 1 operands in the order of the text; an operand is
\* itself a Comma only where the text puts it in parentheses; and no binary
\* operator, in the tree or among the variants, is the comma.
C11_FlatComma ==
    WasRead =>
        LET toks == text.value
            e == parsed.value
            n == Cardinality(TopCommas(toks))
        IN  /\ n >= 1 =>
                   /\ e.node.tag = "Expression::Comma"
                   /\ Len(e.node.expressions) = n + 1
                   /\ \A k \in 1..(n + 1) :
                          /\ k <= Len(e.node.expressions)
                          /\ Leaves(e.node.expressions[k]) = NamesIn(Operand(toks, k))
                          /\ e.node.expressions[k].node.tag = "Expression::Comma"
                                 => Parenthesised(Operand(toks, k))
            /\ \A sub \in SubExpressions(e) :
                   sub.node.tag = "Expression::BinaryOperator" =>
                       /\ sub.node.operator.node \in BinaryOperator
                       /\ BinaryOperatorToken[sub.node.operator.node] # ","
            /\ \A op \in BinaryOperator : BinaryOperatorToken[op] # ","

\* A chain of three operands, one of them an assignment, was read.
C11_Witness ==
    /\ WasRead
    /\ Cardinality(TopCommas(text.value)) = 2
    /\ \E k \in 1..3 :
           parsed.value.node.expressions[k].node.tag = "Expression::BinaryOperator"

\* A parenthesised chain was read as one operand of an outer chain.
NestedChainRead ==
    /\ WasRead
    /\ parsed.value.node.tag = "Expression::Comma"
    /\ \E k \in 1..Len(parsed.value.node.expressions) :
           parsed.value.node.expressions[k].node.tag = "Expression::Comma"

\* The labels in front of a statement, outermost first.
RECURSIVE LabelsOf(_)
LabelsOf(statement) ==
    IF statement.node.tag = "Statement::Labeled"
    THEN << statement.node.label.node >> \o LabelsOf(statement.node.statement)
    ELSE << >>

LabelVariants == { "Label::Identifier", "Label::Case", "Label::Default" }

\* C12 as stated: a statement carries at most one label, the inner statement
\* of a Labeled statement is not itself Labeled.
C12_AsStated ==
    item # None =>
        (item.value.node.tag = "Statement::Labeled"
            => item.value.node.statement.node.tag # "Statement::Labeled")

\* C12: Label is one entity of three variants, and every Statement::Labeled puts
\* exactly one Label in front of its inner statement, which is kept whole, with
\* the labels it already carries: a statement carries one label for each
\* Labeled level around it.
C12_OneLabelPerLevel ==
    /\ [](item # None =>
              /\ \A k \in 1..Len(LabelsOf(item.value)) :
                     LabelsOf(item.value)[k].tag \in LabelVariants
              /\ Len(LabelsOf(item.value)) = LabelCount(item.value))
    /\ [][ (item # None /\ item' # item) =>
               /\ item'.value.node.tag = "Statement::Labeled"
               /\ item'.value.node.label.node \in Labels
               /\ item'.value.node.statement = item.value
               /\ LabelsOf(item'.value)
                      = << item'.value.node.label.node >> \o LabelsOf(item.value) ]_vars

\* A statement read from a text carries two labels of different variants.
C12_Witness ==
    /\ item # None
    /\ parsed # Unread
    /\ Len(LabelsOf(item.value)) = 2
    /\ LabelsOf(item.value)[1].tag = "Label::Case"
    /\ LabelsOf(item.value)[2].tag = "Label::Default"

====
